---- MODULE Spec2Model ----
(***************************************************************************)
(* Bootstrap-safe interception layer of velo-rift's vrift-shim              *)
(* (crates/vrift-shim/src/c/variadic_shim.c), macOS arm64 build: the only  *)
(* target for which the c_*_bridge functions are compiled.                  *)
(*                                                                         *)
(* State: the process-wide INITIALIZING byte, the SIGPIPE disposition, the *)
(* loader's position in the two constructors, and per thread: the errno    *)
(* cell and the position of the bridge call it is in.                      *)
(***************************************************************************)
EXTENDS Integers, Sequences, FiniteSets, TLC

(* ------------------------------------------------------------------ *)
(* Bounds of the model                                                 *)
(* ------------------------------------------------------------------ *)

\* Application threads of the concurrent workload (specification Spec).
NumThreads == 2
\* Application threads that call every bridge (specification SpecBridges).
NumCallers == 1
\* How far around 0 and around the edge of the error range the kernel's
\* return values are taken (specification SpecLinux).
MaxK == 3

(* ------------------------------------------------------------------ *)
(* Program constants                                                   *)
(* ------------------------------------------------------------------ *)

\* variadic_shim.c:25-32, the __APPLE__ && __aarch64__ table
SYS_OPEN == 5
SYS_OPENAT == 463
SYS_STAT64 == 338
SYS_LSTAT64 == 340
SYS_ACCESS == 33
SYS_READLINK == 58
SYS_FSTAT64 == 339
SYS_FSTATAT64 == 466
\* variadic_shim.c:215-217
SYS_RENAME == 128
SYS_RENAMEAT == 444
SYS_FCNTL == 92

\* <fcntl.h> of the macOS target (variadic_shim.c:9)
O_WRONLY == 1
O_CREAT == 512
O_TRUNC == 1024
\* <errno.h> of the macOS target (variadic_shim.c:8)
ENOENT == 2
EBADF == 9
EFAULT == 14
EINVAL == 22
\* the F_DUPFD_CLOEXEC command of tests/poc/verify_abi_hazard.c:31
F_DUPFD_CLOEXEC == 67

\* The three levels of INITIALIZING (variadic_shim.c:63)
EARLY == 2
RUNTIME_SAFE == 1
READY == 0
Levels == {EARLY, RUNTIME_SAFE, READY}

(* ------------------------------------------------------------------ *)
(* C conversions                                                       *)
(* ------------------------------------------------------------------ *)

\* (int)x of a long. Every word of this model lies within the range of int
\* (descriptors, lengths, error codes, -1), where the cast keeps the value.
ToInt(x) == x

\* (mode_t)x of an int: mode_t is a 16-bit unsigned type on the macOS target.
ToModeT(x) == x % 65536

\* (long)m of a mode_t: zero extension.
ModeToLong(m) == m

\* a & b and a | b on non-negative words, bit by bit
RECURSIVE BitAnd(_, _)
BitAnd(a, b) ==
  IF a = 0 \/ b = 0 THEN 0
  ELSE (IF a % 2 = 1 /\ b % 2 = 1 THEN 1 ELSE 0) + 2 * BitAnd(a \div 2, b \div 2)

RECURSIVE BitOr(_, _)
BitOr(a, b) ==
  IF a = 0 THEN b
  ELSE IF b = 0 THEN a
  ELSE (IF a % 2 = 1 \/ b % 2 = 1 THEN 1 ELSE 0) + 2 * BitOr(a \div 2, b \div 2)

(* ------------------------------------------------------------------ *)
(* The caller's memory: strings and buffers, and their addresses       *)
(* ------------------------------------------------------------------ *)

Objects ==
  << "/tmp/t.txt", "/tmp/ln", "/tmp/new", "/vrift/stress_test_path",
     "missing", "statbuf", "linkbuf", "attrlist", "attrbuf" >>

\* (long)ptr of a pointer to the object
Addr(o) == 4096 + 16 * (CHOOSE i \in 1..Len(Objects) : Objects[i] = o)

\* what the kernel or the resolver finds at an address ("" : a fault)
StrAt(a) ==
  IF a > 4096 /\ a <= 4096 + 16 * Len(Objects) /\ a % 16 = 0
  THEN Objects[(a - 4096) \div 16]
  ELSE ""

(* ------------------------------------------------------------------ *)
(* The environment: the kernel behind the trap                         *)
(* ------------------------------------------------------------------ *)

\* Paths that exist in the real file system, and the one symbolic link.
RealFiles == {"/tmp/t.txt", "/tmp/ln"}
SymLinks == {"/tmp/ln"}
\* Paths that exist only in the resolver's manifest.
VirtualFiles == {"/vrift/stress_test_path"}
\* Descriptors the process holds: 3 is an open directory (/tmp), 4 a file.
OpenFds == {3, 4}
DirFds == {3}

KOk(v) == [cf |-> FALSE, x0 |-> v]
KErr(e) == [cf |-> TRUE, x0 |-> e]

PathOps ==
  {"open", "openat", "stat64", "lstat64", "access", "readlink",
   "fstatat64", "rename", "renameat", "getattrlist", "setattrlist"}
AtOps == {"openat", "fstatat64", "renameat"}
OpenOps == {"open", "openat"}

\* Which argument of a kernel operation is its (first) path.
PathPos(op) == IF op \in AtOps THEN 2 ELSE 1
\* Which argument of an open-like operation is its flags word.
FlagPos(op) == IF op = "openat" THEN 3 ELSE 2

\* The kernel's answer to one operation: the carry flag and x0.
KernelOp(op, a) ==
  CASE op \in PathOps ->
         LET s == StrAt(a[PathPos(op)])
         IN  IF s = "" THEN KErr(EFAULT)
             ELSE IF op \in AtOps /\ a[1] \notin DirFds THEN KErr(EBADF)
             ELSE IF s \in RealFiles
               THEN IF op \in OpenOps THEN KOk(5)
                    ELSE IF op = "readlink"
                      THEN IF s \in SymLinks THEN KOk(10) ELSE KErr(EINVAL)
                    ELSE KOk(0)
             ELSE IF op \in OpenOps /\ BitAnd(a[FlagPos(op)], O_CREAT) # 0
               THEN KOk(5)
             ELSE KErr(ENOENT)
    [] op = "fstat64" ->
         IF a[1] \in OpenFds THEN KOk(0) ELSE KErr(EBADF)
    [] op = "fcntl" ->
         IF a[1] \notin OpenFds THEN KErr(EBADF)
         ELSE IF a[2] = F_DUPFD_CLOEXEC /\ a[3] >= 0 /\ a[3] < 256
           THEN KOk(a[3])
         ELSE KErr(EINVAL)
    [] OTHER -> KErr(EINVAL)

\* The operation the macOS kernel runs for a trap number (its syscall table).
XnuOp(number) ==
  CASE number = 5 -> "open"
    [] number = 33 -> "access"
    [] number = 58 -> "readlink"
    [] number = 92 -> "fcntl"
    [] number = 128 -> "rename"
    [] number = 220 -> "getattrlist"
    [] number = 221 -> "setattrlist"
    [] number = 338 -> "stat64"
    [] number = 339 -> "fstat64"
    [] number = 340 -> "lstat64"
    [] number = 444 -> "change_fdguard_np"
    [] number = 463 -> "openat"
    [] number = 465 -> "renameat"
    [] number = 466 -> "faccessat"
    [] number = 470 -> "fstatat64"
    [] OTHER -> "enosys"

\* svc #0x80 with x16 = number and x0..x3 = the four arguments.
KernelTrap(number, a1, a2, a3, a4) ==
  KernelOp(XnuOp(number), <<a1, a2, a3, a4>>)

(* ------------------------------------------------------------------ *)
(* The resolver behind the implementation entry points                 *)
(* (Rust code of the shim, SPEC sections 4.3, 4.5 and 6)               *)
(* ------------------------------------------------------------------ *)

\* The kernel operation an entry point stands for, with its arguments.
ImplKernelCall(name, a) ==
  CASE name = "velo_open_impl" -> [op |-> "open", args |-> a]
    [] name = "velo_openat_impl" -> [op |-> "openat", args |-> a]
    [] name = "velo_stat_impl" -> [op |-> "stat64", args |-> a]
    [] name = "velo_lstat_impl" -> [op |-> "lstat64", args |-> a]
    [] name = "velo_access_impl" -> [op |-> "access", args |-> a]
    [] name = "velo_readlink_impl" -> [op |-> "readlink", args |-> a]
    [] name = "velo_fstat_impl" -> [op |-> "fstat64", args |-> a]
    [] name = "velo_fstatat_impl" -> [op |-> "fstatat64", args |-> a]
    [] name = "velo_rename_impl" -> [op |-> "rename", args |-> a]
    [] name = "velo_renameat_impl" -> [op |-> "renameat", args |-> a]
    [] name = "velo_fcntl_impl" -> [op |-> "fcntl", args |-> a]
    [] name = "creat_shim" ->
         [op |-> "open",
          args |-> <<a[1], BitOr(O_CREAT, BitOr(O_WRONLY, O_TRUNC)), a[2]>>]
    [] name = "getattrlist_shim" -> [op |-> "getattrlist", args |-> a]
    [] name = "setattrlist_shim" -> [op |-> "setattrlist", args |-> a]

\* An entry point's outcome: a path of the manifest resolves; any other
\* request passes through to the real file system. A failure is reported
\* as -1 with the code handed to set_vfs_errno.
Resolver(name, a) ==
  LET kc == ImplKernelCall(name, a)
      k == KernelOp(kc.op, kc.args)
      virtual == /\ kc.op \in PathOps
                 /\ StrAt(kc.args[PathPos(kc.op)]) \in VirtualFiles
  IN  IF virtual
        THEN [ok |-> TRUE, val |-> IF kc.op \in OpenOps THEN 5 ELSE 0, err |-> 0]
      ELSE IF k.cf THEN [ok |-> FALSE, val |-> -1, err |-> k.x0]
      ELSE [ok |-> TRUE, val |-> k.x0, err |-> 0]

(* ------------------------------------------------------------------ *)
(* State                                                               *)
(* ------------------------------------------------------------------ *)

\* INITIALIZING is a volatile char with no lock and no fence: the bridges'
\* reads race with the constructors' stores. Each access is one byte load or
\* store, so a racing read returns the byte as it is before or after the
\* store; the interleaving of the read steps with the store steps below
\* produces both outcomes. errno is the C library's per-thread cell.

VARIABLES
  INITIALIZING,  \* the process-wide bootstrap byte
  sigpipe,       \* the process's SIGPIPE disposition
  loader,        \* where the loader is in the constructors
  errno,         \* errno[t]: thread t's error cell
  pc,            \* pc[t]: idle, gate (route chosen), impl (in the resolver), ret
  call,          \* call[t]: the intercepted function and the caller's arguments
  seen,          \* seen[t]: what the bridge read from INITIALIZING (-1: no read)
  pend,          \* pend[t]: the downstream call the bridge chose
  traps,         \* traps[t]: the traps this call has issued (late: issued
                 \* when INITIALIZING was already READY)
  impls,         \* impls[t]: the entry points this call has entered
  ret,           \* ret[t]: what the bridge returned
  errno0,        \* errno0[t]: errno[t] when the call began
  wrote,         \* wrote[t]: who last reported an error on t, and which code
  got,           \* got[t]: what get_vfs_errno last returned (-1: not called)
  lowread,       \* the latest level any read of INITIALIZING has returned so far
  stores,        \* the values stored to INITIALIZING since load, in order
  nreads,        \* nreads[t]: the reads of INITIALIZING this call has made
  tls,           \* tls[t]: whether this call has written the thread's errno cell
  inflight       \* the threads that were between their read of INITIALIZING
                 \* and their trap when READY was stored, and have not yet
                 \* issued that trap

vars ==
  <<INITIALIZING, sigpipe, loader, errno, pc, call, seen, pend, traps, impls,
    ret, errno0, wrote, got, lowread, stores, nreads, tls,
    inflight>>

shared == <<INITIALIZING, sigpipe, loader, stores, inflight>>
Min(a, b) == IF a < b THEN a ELSE b
callvars == <<pc, call, seen, pend, traps, impls, ret, errno0, nreads, tls>>

Threads == DOMAIN pc

\* Markers below every level and every error code.
NoRead == 0 - 1
NoGet == 0 - 1
NoCall == [fn |-> "none", args |-> <<>>, va_read |-> FALSE]
NoOp == [kind |-> "none", name |-> "", number |-> 0, args |-> <<>>, cast |-> ""]
NoWrite == [by |-> "none", code |-> 0]

\* The downstream calls a bridge can choose.
Raw(number, a1, a2, a3, a4) ==
  [kind |-> "raw", name |-> "raw_syscall", number |-> number,
   args |-> <<a1, a2, a3, a4>>, cast |-> "int"]
RawLong(number, a1, a2, a3, a4) ==
  [kind |-> "raw", name |-> "raw_syscall", number |-> number,
   args |-> <<a1, a2, a3, a4>>, cast |-> "long"]
Impl(name, a) ==
  [kind |-> "impl", name |-> name, number |-> 0, args |-> a, cast |-> ""]

InitFor(T) ==
  /\ INITIALIZING = 2
  /\ sigpipe = "SIG_DFL"
  /\ loader = "start"
  /\ errno = [t \in T |-> 0]
  /\ pc = [t \in T |-> "idle"]
  /\ call = [t \in T |-> NoCall]
  /\ seen = [t \in T |-> NoRead]
  /\ pend = [t \in T |-> NoOp]
  /\ traps = [t \in T |-> <<>>]
  /\ impls = [t \in T |-> <<>>]
  /\ ret = [t \in T |-> 0]
  /\ errno0 = [t \in T |-> 0]
  /\ wrote = [t \in T |-> NoWrite]
  /\ got = [t \in T |-> NoGet]
  /\ lowread = EARLY
  /\ stores = <<>>
  /\ nreads = [t \in T |-> 0]
  /\ tls = [t \in T |-> FALSE]
  /\ inflight = {}

(* ------------------------------------------------------------------ *)
(* The two constructors, run by the loader in priority order           *)
(* ------------------------------------------------------------------ *)

\* Mutant: the first constructor storing the level as its first statement,
\* with the disposition not installed by then.
vfs_init_constructor_signal_after_store ==
  /\ loader = "start"
  /\ INITIALIZING' = 1
  /\ stores' = Append(stores, 1)
  /\ UNCHANGED inflight
  /\ loader' = "ctor101"
  /\ UNCHANGED <<sigpipe, errno, wrote, got, lowread>>
  /\ UNCHANGED callvars

\* signal(SIGPIPE, SIG_IGN)
vfs_init_constructor_signal ==
  /\ loader = "start"
  /\ sigpipe' = "SIG_IGN"
  /\ loader' = "ctor101"
  /\ UNCHANGED <<INITIALIZING, stores, inflight, errno, wrote, got, lowread>>
  /\ UNCHANGED callvars

\* Mutant: the first constructor of a four-level revision, storing a level
\* outside the three.
vfs_init_constructor_store_level3 ==
  /\ loader = "ctor101"
  /\ INITIALIZING' = 3
  /\ stores' = Append(stores, 3)
  /\ UNCHANGED inflight
  /\ loader' = "initializers"
  /\ UNCHANGED <<sigpipe, errno, wrote, got, lowread>>
  /\ UNCHANGED callvars

\* Mutant: the first constructor declaring the process ready at once.
vfs_init_constructor_store_ready ==
  /\ loader = "ctor101"
  /\ INITIALIZING' = 0
  /\ stores' = Append(stores, 0)
  /\ inflight' = {t \in Threads : pc[t] = "gate" /\ pend[t].kind = "raw"}
  /\ loader' = "initializers"
  /\ UNCHANGED <<sigpipe, errno, wrote, got, lowread>>
  /\ UNCHANGED callvars

\* INITIALIZING = 1
vfs_init_constructor_store ==
  /\ loader = "ctor101"
  /\ INITIALIZING' = 1
  /\ stores' = Append(stores, 1)
  /\ UNCHANGED inflight
  /\ loader' = "initializers"
  /\ UNCHANGED <<sigpipe, errno, wrote, got, lowread>>
  /\ UNCHANGED callvars

\* Mutant: the late constructor storing the early level again.
vfs_late_init_constructor_rearm ==
  /\ loader = "initializers"
  /\ INITIALIZING' = 2
  /\ stores' = Append(stores, 2)
  /\ UNCHANGED inflight
  /\ loader' = "main"
  /\ UNCHANGED <<sigpipe, errno, wrote, got, lowread>>
  /\ UNCHANGED callvars

\* Mutant: the late constructor storing the level the first one stored.
vfs_late_init_constructor_stays_safe ==
  /\ loader = "initializers"
  /\ INITIALIZING' = 1
  /\ stores' = Append(stores, 1)
  /\ UNCHANGED inflight
  /\ loader' = "main"
  /\ UNCHANGED <<sigpipe, errno, wrote, got, lowread>>
  /\ UNCHANGED callvars

\* INITIALIZING = 0, after every other initializer
vfs_late_init_constructor ==
  /\ loader = "initializers"
  /\ INITIALIZING' = 0
  /\ stores' = Append(stores, 0)
  /\ inflight' = {t \in Threads : pc[t] = "gate" /\ pend[t].kind = "raw"}
  /\ loader' = "main"
  /\ UNCHANGED <<sigpipe, errno, wrote, got, lowread>>
  /\ UNCHANGED callvars

(* ------------------------------------------------------------------ *)
(* The errno bridge                                                    *)
(* ------------------------------------------------------------------ *)

\* Mutant: errno as one cell of the process instead of one per thread.
errno_store_global(t, e) == [u \in DOMAIN errno |-> e]

\* errno = e on the calling thread
errno_store(t, e) == [errno EXCEPT ![t] = e]

\* the value of errno on the calling thread
errno_load(t) == errno[t]

\* void set_vfs_errno(int e), called by a thread between its calls
set_vfs_errno(t, e) ==
  /\ pc[t] = "idle"
  /\ errno' = errno_store(t, e)
  /\ wrote' = [wrote EXCEPT ![t] = [by |-> "set", code |-> e]]
  /\ got' = [got EXCEPT ![t] = NoGet]
  /\ UNCHANGED <<shared, lowread>>
  /\ UNCHANGED callvars

\* int get_vfs_errno(), called by a thread between or right after its calls
get_vfs_errno(t) ==
  /\ pc[t] \in {"idle", "ret"}
  /\ got' = [got EXCEPT ![t] = errno_load(t)]
  /\ UNCHANGED <<errno, wrote>>
  /\ UNCHANGED <<shared, lowread>>
  /\ UNCHANGED callvars

(* ------------------------------------------------------------------ *)
(* The raw syscall invoker (the __APPLE__ && __aarch64__ variant)      *)
(* ------------------------------------------------------------------ *)

\* Mutant: the Linux return convention applied to the macOS trap: the carry
\* flag is ignored and only a value in [-4095, -1] counts as a failure.
raw_syscall_linux_convention(number, arg1, arg2, arg3, arg4) ==
  LET k == KernelTrap(number, arg1, arg2, arg3, arg4)
  IN  IF k.x0 < 0 /\ k.x0 >= -4095
        THEN [ret |-> -1, werr |-> TRUE, err |-> ToInt(-k.x0)]
        ELSE [ret |-> k.x0, werr |-> FALSE, err |-> 0]

\* Mutant: errno cleared before the trap, so that a success leaves 0 in it.
raw_syscall_clears_errno(number, arg1, arg2, arg3, arg4) ==
  LET k == KernelTrap(number, arg1, arg2, arg3, arg4)
  IN  IF k.cf
        THEN [ret |-> -1, werr |-> TRUE, err |-> ToInt(k.x0)]
        ELSE [ret |-> k.x0, werr |-> TRUE, err |-> 0]

\* Mutant: a failure returns -1 but the code is not stored in errno.
raw_syscall_drops_code(number, arg1, arg2, arg3, arg4) ==
  LET k == KernelTrap(number, arg1, arg2, arg3, arg4)
  IN  IF k.cf
        THEN [ret |-> -1, werr |-> FALSE, err |-> 0]
        ELSE [ret |-> k.x0, werr |-> FALSE, err |-> 0]

\* long raw_syscall(number, arg1..arg4): the value returned, and the errno
\* write it makes (werr: whether it writes, err: what it writes).
raw_syscall(number, arg1, arg2, arg3, arg4) ==
  LET k == KernelTrap(number, arg1, arg2, arg3, arg4)
  IN  IF k.cf
        THEN [ret |-> -1, werr |-> TRUE, err |-> ToInt(k.x0)]
        ELSE [ret |-> k.x0, werr |-> FALSE, err |-> 0]

(* ------------------------------------------------------------------ *)
(* The raw syscall invoker, Linux variants                             *)
(* ------------------------------------------------------------------ *)

\* Both Linux variants take the trap's result from the return register (x0
\* after `svc #0`, rax after `syscall`); what follows the trap is modelled as
\* a function of that result.

\* Mutant: the lower edge of the error range tested with > instead of >=.
raw_syscall_linux_aarch64_strict(x0) ==
  IF x0 < 0 /\ x0 > -4095
    THEN [ret |-> -1, werr |-> TRUE, err |-> ToInt(-x0)]
    ELSE [ret |-> x0, werr |-> FALSE, err |-> 0]

\* !__APPLE__ && __aarch64__: if (x0 < 0 && x0 >= -4095) { errno = (int)-x0;
\* return -1; } return x0;
raw_syscall_linux_aarch64(x0) ==
  IF x0 < 0 /\ x0 >= -4095
    THEN [ret |-> -1, werr |-> TRUE, err |-> ToInt(-x0)]
    ELSE [ret |-> x0, werr |-> FALSE, err |-> 0]

\* __x86_64__: if (ret < 0 && ret >= -4095) { errno = (int)-ret; return -1; }
\* return ret;
raw_syscall_x86_64(rax) ==
  IF rax < 0 /\ rax >= -4095
    THEN [ret |-> -1, werr |-> TRUE, err |-> ToInt(-rax)]
    ELSE [ret |-> rax, werr |-> FALSE, err |-> 0]

\* The last error number the Linux kernel returns negated.
MAX_ERRNO == 4095

\* What the kernel leaves in the return register: the values within MaxK of 0
\* and within MaxK of the first value below the error range.
KernelReturns ==
  {r \in (0 - (MAX_ERRNO + 1 + MaxK))..MaxK :
     r >= 0 - MaxK \/ r <= 0 - (MAX_ERRNO + 1 - MaxK)}

\* A thread calls raw_syscall on a Linux target and the kernel answers r.
raw_syscall_linux(t, arch, r) ==
  /\ pc[t] = "idle"
  /\ LET res == IF arch = "aarch64" THEN raw_syscall_linux_aarch64(r)
                                   ELSE raw_syscall_x86_64(r)
     IN  /\ errno' = IF res.werr THEN errno_store(t, res.err) ELSE errno
         /\ tls' = [tls EXCEPT ![t] = res.werr]
         /\ ret' = [ret EXCEPT ![t] = res.ret]
  /\ pc' = [pc EXCEPT ![t] = "ret"]
  /\ call' = [call EXCEPT
               ![t] = [fn |-> "raw_syscall", args |-> <<arch, r>>,
                       va_read |-> FALSE]]
  /\ errno0' = [errno0 EXCEPT ![t] = errno[t]]
  /\ UNCHANGED <<seen, pend, traps, impls, wrote, got, nreads>>
  /\ UNCHANGED <<shared, lowread>>

(* ------------------------------------------------------------------ *)
(* The bridges                                                         *)
(* ------------------------------------------------------------------ *)

\* A bridge is entered by an idle thread: it extracts its arguments, reads
\* INITIALIZING (sample; NoRead for a bridge that has no gate) and chooses
\* the downstream call op.
Enter(t, fn, args, va_read, sample, op) ==
  /\ pc[t] = "idle"
  /\ pc' = [pc EXCEPT ![t] = "gate"]
  /\ call' = [call EXCEPT ![t] = [fn |-> fn, args |-> args, va_read |-> va_read]]
  /\ seen' = [seen EXCEPT ![t] = sample]
  /\ pend' = [pend EXCEPT ![t] = op]
  /\ errno0' = [errno0 EXCEPT ![t] = errno[t]]
  /\ wrote' = [wrote EXCEPT ![t] = NoWrite]
  /\ got' = [got EXCEPT ![t] = NoGet]
  /\ lowread' = IF sample = NoRead THEN lowread ELSE Min(lowread, sample)
  /\ nreads' = [nreads EXCEPT ![t] = IF sample = NoRead THEN 0 ELSE 1]
  /\ tls' = [tls EXCEPT ![t] = FALSE]
  /\ UNCHANGED <<traps, impls, ret, errno>>
  /\ UNCHANGED shared

\* Mutant: the variadic slot read whether or not O_CREAT is set.
c_open_bridge_reads_va_always(t, path, flags, va) ==
  LET mode == ToModeT(va)
  IN  Enter(t, "open", <<path, flags, va>>, TRUE, INITIALIZING,
            IF INITIALIZING # 0
              THEN Raw(SYS_OPEN, path, flags, ModeToLong(mode), 0)
              ELSE Impl("velo_open_impl", <<path, flags, mode>>))

\* int c_open_bridge(const char *path, int flags, ...); va is what lies in
\* the variadic slot.
c_open_bridge(t, path, flags, va) ==
  LET creat == BitAnd(flags, O_CREAT) # 0
      mode == IF creat THEN ToModeT(va) ELSE 0
  IN  Enter(t, "open", <<path, flags, va>>, creat, INITIALIZING,
            IF INITIALIZING # 0
              THEN Raw(SYS_OPEN, path, flags, ModeToLong(mode), 0)
              ELSE Impl("velo_open_impl", <<path, flags, mode>>))

\* int c_openat_bridge(int dirfd, const char *path, int flags, ...)
c_openat_bridge(t, dirfd, path, flags, va) ==
  LET creat == BitAnd(flags, O_CREAT) # 0
      mode == IF creat THEN ToModeT(va) ELSE 0
  IN  Enter(t, "openat", <<dirfd, path, flags, va>>, creat, INITIALIZING,
            IF INITIALIZING # 0
              THEN Raw(SYS_OPENAT, dirfd, path, flags, ModeToLong(mode))
              ELSE Impl("velo_openat_impl", <<dirfd, path, flags, mode>>))

\* Mutant: the gate reading the byte without `volatile`, from a copy the
\* compiler kept from the first constructor's store: the late constructor's
\* store is never seen.
c_stat_bridge_stale_copy(t, path, buf) ==
  LET copy == IF stores = <<>> THEN INITIALIZING ELSE stores[1]
  IN  Enter(t, "stat", <<path, buf>>, FALSE, copy,
            IF copy # 0
              THEN Raw(SYS_STAT64, path, buf, 0, 0)
              ELSE Impl("velo_stat_impl", <<path, buf>>))

\* int c_stat_bridge(const char *path, void *buf)
c_stat_bridge(t, path, buf) ==
  Enter(t, "stat", <<path, buf>>, FALSE, INITIALIZING,
        IF INITIALIZING # 0
          THEN Raw(SYS_STAT64, path, buf, 0, 0)
          ELSE Impl("velo_stat_impl", <<path, buf>>))

c_lstat_bridge(t, path, buf) ==
  Enter(t, "lstat", <<path, buf>>, FALSE, INITIALIZING,
        IF INITIALIZING # 0
          THEN Raw(SYS_LSTAT64, path, buf, 0, 0)
          ELSE Impl("velo_lstat_impl", <<path, buf>>))

c_access_bridge(t, path, mode) ==
  Enter(t, "access", <<path, mode>>, FALSE, INITIALIZING,
        IF INITIALIZING # 0
          THEN Raw(SYS_ACCESS, path, mode, 0, 0)
          ELSE Impl("velo_access_impl", <<path, mode>>))

\* long c_readlink_bridge(...): the one bridge that returns a long
c_readlink_bridge(t, path, buf, bufsiz) ==
  Enter(t, "readlink", <<path, buf, bufsiz>>, FALSE, INITIALIZING,
        IF INITIALIZING # 0
          THEN RawLong(SYS_READLINK, path, buf, bufsiz, 0)
          ELSE Impl("velo_readlink_impl", <<path, buf, bufsiz>>))

c_fstat_bridge(t, fd, buf) ==
  Enter(t, "fstat", <<fd, buf>>, FALSE, INITIALIZING,
        IF INITIALIZING # 0
          THEN Raw(SYS_FSTAT64, fd, buf, 0, 0)
          ELSE Impl("velo_fstat_impl", <<fd, buf>>))

c_fstatat_bridge(t, dirfd, path, buf, flags) ==
  Enter(t, "fstatat", <<dirfd, path, buf, flags>>, FALSE, INITIALIZING,
        IF INITIALIZING # 0
          THEN Raw(SYS_FSTATAT64, dirfd, path, buf, flags)
          ELSE Impl("velo_fstatat_impl", <<dirfd, path, buf, flags>>))

\* Mutant: the two paths handed to the entry point in the wrong order.
c_rename_bridge_swapped(t, old, new) ==
  Enter(t, "rename", <<old, new>>, FALSE, INITIALIZING,
        IF INITIALIZING # 0
          THEN Raw(SYS_RENAME, old, new, 0, 0)
          ELSE Impl("velo_rename_impl", <<new, old>>))

c_rename_bridge(t, old, new) ==
  Enter(t, "rename", <<old, new>>, FALSE, INITIALIZING,
        IF INITIALIZING # 0
          THEN Raw(SYS_RENAME, old, new, 0, 0)
          ELSE Impl("velo_rename_impl", <<old, new>>))

c_renameat_bridge(t, oldfd, old, newfd, new) ==
  Enter(t, "renameat", <<oldfd, old, newfd, new>>, FALSE, INITIALIZING,
        IF INITIALIZING # 0
          THEN Raw(SYS_RENAMEAT, oldfd, old, newfd, new)
          ELSE Impl("velo_renameat_impl", <<oldfd, old, newfd, new>>))

\* Mutant: creat trapping into open without O_TRUNC.
c_creat_bridge_no_trunc(t, path, mode) ==
  Enter(t, "creat", <<path, mode>>, FALSE, INITIALIZING,
        IF INITIALIZING # 0
          THEN Raw(SYS_OPEN, path, BitOr(O_CREAT, O_WRONLY), ModeToLong(mode), 0)
          ELSE Impl("creat_shim", <<path, mode>>))

\* int c_creat_bridge(const char *path, mode_t mode)
c_creat_bridge(t, path, mode) ==
  Enter(t, "creat", <<path, mode>>, FALSE, INITIALIZING,
        IF INITIALIZING # 0
          THEN Raw(SYS_OPEN, path, BitOr(O_CREAT, BitOr(O_WRONLY, O_TRUNC)),
                   ModeToLong(mode), 0)
          ELSE Impl("creat_shim", <<path, mode>>))

\* The two attribute-list bridges read no state.
c_getattrlist_bridge(t, path, attrlist, attrbuf, attrbufsize, options) ==
  Enter(t, "getattrlist", <<path, attrlist, attrbuf, attrbufsize, options>>,
        FALSE, NoRead,
        Impl("getattrlist_shim",
             <<path, attrlist, attrbuf, attrbufsize, options>>))

c_setattrlist_bridge(t, path, attrlist, attrbuf, attrbufsize, options) ==
  Enter(t, "setattrlist", <<path, attrlist, attrbuf, attrbufsize, options>>,
        FALSE, NoRead,
        Impl("setattrlist_shim",
             <<path, attrlist, attrbuf, attrbufsize, options>>))

\* Mutant: the third argument taken from the wrong storage class (a register
\* holding a stale pointer instead of the caller's stack slot).
fcntl_shim_c_impl_stale_arg(t, fd, cmd, arg) ==
  Enter(t, "fcntl", <<fd, cmd, arg>>, FALSE, INITIALIZING,
        IF INITIALIZING # 0
          THEN Raw(SYS_FCNTL, fd, cmd, Addr("statbuf"), 0)
          ELSE Impl("velo_fcntl_impl", <<fd, cmd, Addr("statbuf")>>))

\* int fcntl_shim_c_impl(int fd, int cmd, long arg)
fcntl_shim_c_impl(t, fd, cmd, arg) ==
  Enter(t, "fcntl", <<fd, cmd, arg>>, FALSE, INITIALIZING,
        IF INITIALIZING # 0
          THEN Raw(SYS_FCNTL, fd, cmd, arg, 0)
          ELSE Impl("velo_fcntl_impl", <<fd, cmd, arg>>))

\* What a bridge returns of its downstream call's value v:
\* `return (int)raw_syscall(...)`, `return raw_syscall(...)` (readlink) or
\* `return velo_x_impl(...)`.
bridge_result(p, v) ==
  IF p.kind = "raw" /\ p.cast = "int" THEN ToInt(v) ELSE v

\* Mutant: the raw route reading INITIALIZING a second time just before the
\* trap, and returning without a trap when the byte has become 0 meanwhile.
bridge_raw_rechecks(t) ==
  /\ pc[t] = "gate"
  /\ pend[t].kind = "raw"
  /\ LET p == pend[t]
         k == KernelTrap(p.number, p.args[1], p.args[2], p.args[3], p.args[4])
         r == raw_syscall(p.number, p.args[1], p.args[2], p.args[3], p.args[4])
     IN  IF INITIALIZING # 0
           THEN /\ traps' = [traps EXCEPT
                               ![t] = Append(@, [number |-> p.number,
                                                 args |-> p.args,
                                                 late |-> FALSE])]
                /\ errno' = IF r.werr THEN errno_store(t, r.err) ELSE errno
                /\ tls' = [tls EXCEPT ![t] = r.werr]
                /\ ret' = [ret EXCEPT ![t] = bridge_result(p, r.ret)]
                /\ wrote' = IF k.cf
                              THEN [wrote EXCEPT
                                      ![t] = [by |-> "raw", code |-> k.x0]]
                              ELSE wrote
           ELSE /\ ret' = [ret EXCEPT ![t] = 0 - 1]
                /\ UNCHANGED <<traps, errno, tls, wrote>>
  /\ nreads' = [nreads EXCEPT ![t] = @ + 1]
  /\ pc' = [pc EXCEPT ![t] = "ret"]
  /\ UNCHANGED <<call, seen, pend, impls, errno0, got>>
  /\ UNCHANGED <<shared, lowread>>

\* The raw route: the one raw_syscall of the bridge, and its return.
bridge_raw(t) ==
  /\ pc[t] = "gate"
  /\ pend[t].kind = "raw"
  /\ LET p == pend[t]
         k == KernelTrap(p.number, p.args[1], p.args[2], p.args[3], p.args[4])
         r == raw_syscall(p.number, p.args[1], p.args[2], p.args[3], p.args[4])
     IN  /\ traps' = [traps EXCEPT
                        ![t] = Append(@, [number |-> p.number, args |-> p.args,
                                          late |-> INITIALIZING = READY])]
         /\ errno' = IF r.werr THEN errno_store(t, r.err) ELSE errno
         /\ tls' = [tls EXCEPT ![t] = r.werr]
         /\ ret' = [ret EXCEPT ![t] = bridge_result(p, r.ret)]
         /\ wrote' = IF k.cf
                       THEN [wrote EXCEPT ![t] = [by |-> "raw", code |-> k.x0]]
                       ELSE wrote
  /\ inflight' = inflight \ {t}
  /\ pc' = [pc EXCEPT ![t] = "ret"]
  /\ UNCHANGED <<call, seen, pend, impls, errno0, got, nreads>>
  /\ UNCHANGED <<INITIALIZING, sigpipe, loader, stores, lowread>>

\* Mutant: the resolver entered under a process-wide lock, one thread at a
\* time.
bridge_impl_call_locked(t) ==
  /\ pc[t] = "gate"
  /\ pend[t].kind = "impl"
  /\ \A u \in Threads : pc[u] # "impl"
  /\ impls' = [impls EXCEPT
                 ![t] = Append(@, [name |-> pend[t].name, args |-> pend[t].args])]
  /\ pc' = [pc EXCEPT ![t] = "impl"]
  /\ UNCHANGED <<call, seen, pend, traps, ret, errno0, errno, wrote, got>>
  /\ UNCHANGED <<nreads, tls>>
  /\ UNCHANGED <<shared, lowread>>

\* The resolver route: the bridge calls the entry point it chose ...
bridge_impl_call(t) ==
  /\ pc[t] = "gate"
  /\ pend[t].kind = "impl"
  /\ impls' = [impls EXCEPT
                 ![t] = Append(@, [name |-> pend[t].name, args |-> pend[t].args])]
  /\ pc' = [pc EXCEPT ![t] = "impl"]
  /\ UNCHANGED <<call, seen, pend, traps, ret, errno0, errno, wrote, got>>
  /\ UNCHANGED <<nreads, tls>>
  /\ UNCHANGED <<shared, lowread>>

\* ... and returns what it returns; a failing entry point has reported its
\* code through set_vfs_errno.
bridge_impl_return(t) ==
  /\ pc[t] = "impl"
  /\ LET p == pend[t]
         r == Resolver(p.name, p.args)
     IN  /\ errno' = IF r.ok THEN errno ELSE errno_store(t, r.err)
         /\ tls' = [tls EXCEPT ![t] = ~r.ok]
         /\ ret' = [ret EXCEPT ![t] = bridge_result(p, r.val)]
         /\ wrote' = IF r.ok
                       THEN wrote
                       ELSE [wrote EXCEPT ![t] = [by |-> "impl", code |-> r.err]]
  /\ pc' = [pc EXCEPT ![t] = "ret"]
  /\ UNCHANGED <<call, seen, pend, traps, impls, errno0, got, nreads>>
  /\ UNCHANGED <<shared, lowread>>

\* The caller goes on after the call.
caller_continue(t) ==
  /\ pc[t] = "ret"
  /\ pc' = [pc EXCEPT ![t] = "idle"]
  /\ call' = [call EXCEPT ![t] = NoCall]
  /\ seen' = [seen EXCEPT ![t] = NoRead]
  /\ pend' = [pend EXCEPT ![t] = NoOp]
  /\ traps' = [traps EXCEPT ![t] = <<>>]
  /\ impls' = [impls EXCEPT ![t] = <<>>]
  /\ ret' = [ret EXCEPT ![t] = 0]
  /\ errno0' = [errno0 EXCEPT ![t] = 0]
  /\ wrote' = [wrote EXCEPT ![t] = NoWrite]
  /\ got' = [got EXCEPT ![t] = NoGet]
  /\ nreads' = [nreads EXCEPT ![t] = 0]
  /\ tls' = [tls EXCEPT ![t] = FALSE]
  /\ UNCHANGED errno
  /\ UNCHANGED <<shared, lowread>>

(* ------------------------------------------------------------------ *)
(* Specifications                                                      *)
(* ------------------------------------------------------------------ *)

Loader ==
  \/ vfs_init_constructor_signal
  \/ vfs_init_constructor_store
  \/ vfs_late_init_constructor

\* The codes a thread hands to set_vfs_errno itself.
SetCodes == {0, EINVAL}

\* What every thread does besides entering a bridge.
ThreadSteps ==
  \/ \E t \in Threads : bridge_raw(t)
  \/ \E t \in Threads : bridge_impl_call(t)
  \/ \E t \in Threads : bridge_impl_return(t)
  \/ \E t \in Threads : caller_continue(t)
  \/ \E t \in Threads, e \in SetCodes : set_vfs_errno(t, e)
  \/ \E t \in Threads : get_vfs_errno(t)

\* Spec: the concurrent workload of tests/stress_init.c. NumThreads threads,
\* each querying the virtual path (and a descriptor it does not hold), at any
\* point relative to the two constructors.
Init == InitFor(1..NumThreads)

Next ==
  \/ Loader
  \/ ThreadSteps
  \/ \E t \in Threads :
       c_stat_bridge(t, Addr("/vrift/stress_test_path"), Addr("statbuf"))
  \/ \E t \in Threads : c_fstat_bridge(t, 99, Addr("statbuf"))

Spec == Init /\ [][Next]_vars

\* SpecCalls: the calls of Spec without the threads' own use of the errno
\* accessors between them.
NextCalls ==
  \/ Loader
  \/ \E t \in Threads : bridge_raw(t)
  \/ \E t \in Threads : bridge_impl_call(t)
  \/ \E t \in Threads : bridge_impl_return(t)
  \/ \E t \in Threads : caller_continue(t)
  \/ \E t \in Threads :
       c_stat_bridge(t, Addr("/vrift/stress_test_path"), Addr("statbuf"))
  \/ \E t \in Threads : c_fstat_bridge(t, 99, Addr("statbuf"))

SpecCalls == Init /\ [][NextCalls]_vars

\* SpecFrame: threads calling stat on a file that exists and on the virtual
\* path, so that raw traps succeed and fail on threads whose errno holds the
\* code of an earlier failure.
NextFrame ==
  \/ Loader
  \/ \E t \in Threads : bridge_raw(t)
  \/ \E t \in Threads : bridge_impl_call(t)
  \/ \E t \in Threads : bridge_impl_return(t)
  \/ \E t \in Threads : caller_continue(t)
  \/ \E t \in Threads : c_stat_bridge(t, Addr("/tmp/t.txt"), Addr("statbuf"))
  \/ \E t \in Threads :
       c_stat_bridge(t, Addr("/vrift/stress_test_path"), Addr("statbuf"))

SpecFrame == Init /\ [][NextFrame]_vars

\* SpecCreat: threads calling creat(path, mode) and
\* open(path, O_CREAT | O_WRONLY | O_TRUNC, mode) with the same arguments: a
\* path that can be created, with modes 0644 and 0600, and a null pointer.
CreatCalls == {<<Addr("/tmp/new"), 420>>, <<Addr("/tmp/new"), 384>>, <<0, 420>>}
CreatFlags == BitOr(O_CREAT, BitOr(O_WRONLY, O_TRUNC))

NextCreat ==
  \/ Loader
  \/ \E t \in Threads : bridge_raw(t)
  \/ \E t \in Threads : bridge_impl_call(t)
  \/ \E t \in Threads : bridge_impl_return(t)
  \/ \E t \in Threads : caller_continue(t)
  \/ \E t \in Threads, c \in CreatCalls : c_creat_bridge(t, c[1], c[2])
  \/ \E t \in Threads, c \in CreatCalls :
       c_open_bridge(t, c[1], CreatFlags, c[2])

SpecCreat == Init /\ [][NextCreat]_vars

\* SpecLive: the workload of Spec on NumCallers threads, with the loader's
\* guarantee: the loader runs the initializers of an image to completion, the
\* priority-101 constructor first and the priority-65535 one last, whatever the
\* threads do meanwhile.
InitLive == InitFor(1..NumCallers)

SpecLive == InitLive /\ [][Next]_vars /\ WF_vars(Loader)

\* SpecBridges: every bridge, called by one application thread at any point
\* relative to the two constructors, which the loader runs beside it.
OpenFlags == {0, BitOr(O_CREAT, O_WRONLY)}
\* What lies in the variadic slot: 0644, and an int beyond the width of mode_t.
VaSlot == {420, 65536 + 420}

InitBridges == InitFor(1..NumCallers)

NextBridges ==
  \/ Loader
  \/ ThreadSteps
  \/ \E t \in Threads, flags \in OpenFlags, va \in VaSlot :
       c_open_bridge(t, Addr("/tmp/new"), flags, va)
  \/ \E t \in Threads, flags \in OpenFlags, va \in VaSlot :
       c_openat_bridge(t, 3, Addr("missing"), flags, va)
  \/ \E t \in Threads, path \in {Addr("/tmp/t.txt"), Addr("/vrift/stress_test_path")} :
       c_stat_bridge(t, path, Addr("statbuf"))
  \/ \E t \in Threads : c_lstat_bridge(t, Addr("/tmp/ln"), Addr("statbuf"))
  \/ \E t \in Threads : c_access_bridge(t, Addr("/tmp/t.txt"), 4)
  \/ \E t \in Threads : c_readlink_bridge(t, Addr("/tmp/ln"), Addr("linkbuf"), 64)
  \/ \E t \in Threads, fd \in {4, 99} : c_fstat_bridge(t, fd, Addr("statbuf"))
  \/ \E t \in Threads :
       c_fstatat_bridge(t, 3, Addr("/tmp/t.txt"), Addr("statbuf"), 0)
  \/ \E t \in Threads : c_rename_bridge(t, Addr("/tmp/t.txt"), Addr("/tmp/new"))
  \/ \E t \in Threads :
       c_renameat_bridge(t, 3, Addr("/tmp/t.txt"), 3, Addr("/tmp/new"))
  \/ \E t \in Threads : c_creat_bridge(t, Addr("/tmp/new"), 420)
  \/ \E t \in Threads :
       c_getattrlist_bridge(t, Addr("/vrift/stress_test_path"), Addr("attrlist"),
                            Addr("attrbuf"), 64, 0)
  \/ \E t \in Threads :
       c_setattrlist_bridge(t, Addr("/vrift/stress_test_path"), Addr("attrlist"),
                            Addr("attrbuf"), 64, 0)
  \/ \E t \in Threads : fcntl_shim_c_impl(t, 4, F_DUPFD_CLOEXEC, 100)

SpecBridges == InitBridges /\ [][NextBridges]_vars

\* SpecLinux: raw_syscall as compiled for the two Linux targets, called by a
\* thread with every kernel answer in KernelReturns, whatever errno holds from
\* the calls before.
InitLinux == InitFor(1..NumCallers)

NextLinux ==
  \/ \E t \in Threads, r \in KernelReturns : raw_syscall_linux(t, "aarch64", r)
  \/ \E t \in Threads, r \in KernelReturns : raw_syscall_linux(t, "x86_64", r)
  \/ \E t \in Threads : caller_continue(t)

SpecLinux == InitLinux /\ [][NextLinux]_vars

(* ------------------------------------------------------------------ *)
(* Vocabulary of the properties                                        *)
(* ------------------------------------------------------------------ *)

\* Thread t's bridge reads INITIALIZING in this step.
ReadsState(t) == pc[t] = "idle" /\ pc'[t] = "gate" /\ seen'[t] # NoRead

\* Thread t's call has performed its downstream call and returned.
Returned(t) == pc[t] = "ret"

\* The resolver entry point that matches an intercepted function.
EntryPoint(fn) ==
  CASE fn = "open" -> "velo_open_impl"
    [] fn = "openat" -> "velo_openat_impl"
    [] fn = "stat" -> "velo_stat_impl"
    [] fn = "lstat" -> "velo_lstat_impl"
    [] fn = "access" -> "velo_access_impl"
    [] fn = "readlink" -> "velo_readlink_impl"
    [] fn = "fstat" -> "velo_fstat_impl"
    [] fn = "fstatat" -> "velo_fstatat_impl"
    [] fn = "rename" -> "velo_rename_impl"
    [] fn = "renameat" -> "velo_renameat_impl"
    [] fn = "creat" -> "creat_shim"
    [] fn = "fcntl" -> "velo_fcntl_impl"
    [] fn = "getattrlist" -> "getattrlist_shim"
    [] fn = "setattrlist" -> "setattrlist_shim"

\* The operation the kernel runs when the function is called unintercepted.
DirectOp(fn) ==
  CASE fn = "open" -> "open"
    [] fn = "openat" -> "openat"
    [] fn = "stat" -> "stat64"
    [] fn = "lstat" -> "lstat64"
    [] fn = "access" -> "access"
    [] fn = "readlink" -> "readlink"
    [] fn = "fstat" -> "fstat64"
    [] fn = "fstatat" -> "fstatat64"
    [] fn = "rename" -> "rename"
    [] fn = "renameat" -> "renameat"
    [] fn = "creat" -> "open"
    [] fn = "fcntl" -> "fcntl"
    [] fn = "getattrlist" -> "getattrlist"
    [] fn = "setattrlist" -> "setattrlist"

\* The outcome of the unintercepted library call: the kernel's answer in the
\* library's convention (-1 and the code on a failure).
DirectCall(c) ==
  LET a == IF c.fn = "creat"
             THEN <<c.args[1], BitOr(O_CREAT, BitOr(O_WRONLY, O_TRUNC)), c.args[2]>>
             ELSE c.args
      k == KernelOp(DirectOp(c.fn), a)
  IN  IF k.cf THEN [ret |-> -1, fail |-> TRUE, err |-> k.x0]
      ELSE [ret |-> k.x0, fail |-> FALSE, err |-> 0]

\* open and openat: whether the caller asked to create, what it put in the
\* variadic slot, and the mode the downstream call received.
IsOpen(t) == call[t].fn \in {"open", "openat"}
ModePos(t) == IF call[t].fn = "open" THEN 3 ELSE 4
AsksCreate(t) == BitAnd(call[t].args[ModePos(t) - 1], O_CREAT) # 0
VaArg(t) == call[t].args[ModePos(t)]
Delivered(t) ==
  IF traps[t] # <<>> THEN traps[t][1].args[ModePos(t)]
  ELSE impls[t][1].args[ModePos(t)]
HasDelivered(t) == IsOpen(t) /\ (traps[t] # <<>> \/ impls[t] # <<>>)

\* The arguments a bridge extracts from its call: the caller's, with the
\* mode of open and openat taken from the variadic slot.
Extracted(t) ==
  IF IsOpen(t)
    THEN [call[t].args EXCEPT
            ![ModePos(t)] = IF AsksCreate(t) THEN VaArg(t) % 65536 ELSE 0]
    ELSE call[t].args

(* ------------------------------------------------------------------ *)
(* Properties                                                          *)
(* ------------------------------------------------------------------ *)

\* C1: the values read from INITIALIZING, by all threads in the order of the
\* reads, never move back to an earlier level: every read returns a level no
\* earlier than the latest level any read has returned before it (so once a
\* read returned READY, every later read returns READY).
C1_ReadsNeverRegress ==
  [][\A t \in Threads : ReadsState(t) => seen'[t] <= lowread]_vars

\* A thread has read READY and another thread has read READY as well.
C1_Witness ==
  \E t, u \in Threads :
    /\ t # u
    /\ Returned(t) /\ seen[t] = READY
    /\ pc[u] = "gate" /\ seen[u] = READY

\* C2 (as claimed): a resolver entry point is entered only by a call that
\* read the bootstrap state as READY.
C2_ResolverOnlyAfterReadyRead ==
  \A t \in Threads : impls[t] # <<>> => seen[t] = READY

\* C3 (as claimed): no stat() of a path the resolver knows returns -1 with
\* errno ENOENT, whatever the interleaving with the two constructors.
C3_NoSpuriousNotFound ==
  \A t \in Threads :
    (/\ Returned(t)
     /\ call[t].fn = "stat"
     /\ StrAt(call[t].args[1]) \in VirtualFiles)
    => ~(ret[t] = -1 /\ errno[t] = ENOENT)

\* C4 (as claimed): a call that ran entirely while the bootstrap state was
\* below READY returns what the unintercepted call returns and leaves errno
\* as the unintercepted call leaves it.
C4_BelowReadyIsDirectCall ==
  \A t \in Threads :
    (Returned(t) /\ INITIALIZING # READY)
    => LET d == DirectCall(call[t])
       IN  /\ ret[t] = d.ret
           /\ errno[t] = IF d.fail THEN d.err ELSE errno0[t]

\* C5 (as claimed): open and openat deliver exactly the caller's extra
\* argument as the mode when O_CREAT is set, and 0 without reading the
\* variadic slot when it is not.
C5_ModeIsExactlyTheArgument ==
  \A t \in Threads :
    HasDelivered(t)
    => /\ call[t].va_read = AsksCreate(t)
       /\ Delivered(t) = IF AsksCreate(t) THEN VaArg(t) ELSE 0

\* C5 (amended): with O_CREAT the delivered mode is the caller's extra
\* argument converted to mode_t, that is its low 16 bits, hence exactly the
\* argument whenever it fits mode_t; without O_CREAT the variadic slot is not
\* read and the delivered mode is 0.
C5_ModeIsTheArgumentAsModeT ==
  \A t \in Threads :
    HasDelivered(t)
    => /\ call[t].va_read = AsksCreate(t)
       /\ Delivered(t) = IF AsksCreate(t) THEN VaArg(t) % 65536 ELSE 0
       /\ (AsksCreate(t) /\ VaArg(t) \in 0..65535 => Delivered(t) = VaArg(t))

\* open(path, O_CREAT | O_WRONLY, 0644) has trapped with mode 0644.
C5_Witness ==
  \E t \in Threads :
    /\ call[t].fn = "open" /\ AsksCreate(t)
    /\ traps[t] # <<>>
    /\ VaArg(t) = 420 /\ Delivered(t) = 420

\* C6: a call served by the raw route issues exactly one trap and enters no
\* resolver entry point, and when the kernel reports a failure the bridge
\* returns -1 with errno equal to the kernel's code.
C6_RawFailureVerbatim ==
  \A t \in Threads :
    (Returned(t) /\ pend[t].kind = "raw")
    => /\ Len(traps[t]) = 1
       /\ impls[t] = <<>>
       /\ LET a == traps[t][1].args
              k == KernelTrap(traps[t][1].number, a[1], a[2], a[3], a[4])
          IN  k.cf => ret[t] = -1 /\ errno[t] = k.x0

\* openat of a missing relative name under a valid directory descriptor has
\* returned -1 with ENOENT.
C6_Witness ==
  \E t \in Threads :
    /\ Returned(t) /\ call[t].fn = "openat"
    /\ call[t].args[1] \in DirFds /\ StrAt(call[t].args[2]) = "missing"
    /\ ret[t] = -1 /\ errno[t] = ENOENT /\ Len(traps[t]) = 1

\* C7: a gated bridge that read READY has called the matching entry point
\* exactly once with its extracted arguments in their order, has issued no
\* trap, returns the entry point's result, and leaves errno as the entry
\* point left it.
C7_ReadyRoutePassesThrough ==
  \A t \in Threads :
    (Returned(t) /\ seen[t] = READY)
    => /\ traps[t] = <<>>
       /\ impls[t] = << [name |-> EntryPoint(call[t].fn), args |-> Extracted(t)] >>
       /\ LET r == Resolver(impls[t][1].name, impls[t][1].args)
          IN  /\ ret[t] = r.val
              /\ errno[t] = IF r.ok THEN errno0[t] ELSE r.err

\* rename(old, new) has been served by the resolver.
C7_Witness ==
  \E t \in Threads :
    /\ Returned(t) /\ seen[t] = READY /\ call[t].fn = "rename"
    /\ impls[t][1].args = <<Addr("/tmp/t.txt"), Addr("/tmp/new")>>

\* C8: get_vfs_errno after set_vfs_errno(e) on the same thread, with no
\* errno write on that thread in between, returns e; and a thread's errno
\* changes only in a step of that thread.
C8_ErrnoRoundTripIsolated ==
  /\ [](\A t \in Threads :
          (wrote[t].by = "set" /\ got[t] # NoGet) => got[t] = wrote[t].code)
  /\ [][\A t \in Threads :
          errno'[t] # errno[t] => (pc'[t] # pc[t] \/ wrote'[t] # wrote[t])]_vars

\* A thread has read back EINVAL after setting it while another thread set 0.
C8_Witness ==
  \E t, u \in Threads :
    /\ t # u
    /\ wrote[t] = [by |-> "set", code |-> EINVAL] /\ got[t] = EINVAL
    /\ wrote[u] = [by |-> "set", code |-> 0]

\* C9: after a call fails on a thread, by the raw route or by the resolver,
\* get_vfs_errno on that thread returns that call's error code.
C9_SingleErrorChannel ==
  \A t \in Threads :
    (Returned(t) /\ wrote[t].by \in {"raw", "impl"})
    => /\ ret[t] = -1
       /\ got[t] # NoGet => got[t] = wrote[t].code

\* A thread whose earlier call failed on the raw route (ENOENT is reported
\* by no other route in this workload) reads EBADF after a call that the
\* resolver failed.
C9_Witness ==
  \E t \in Threads :
    /\ Returned(t)
    /\ wrote[t] = [by |-> "impl", code |-> EBADF]
    /\ errno0[t] = ENOENT
    /\ got[t] = EBADF

\* C10: the bootstrap value is always one of the three levels, it is EARLY
\* until the first constructor stores, and every read returns one of the
\* three levels.
C10_LevelAlwaysDefined ==
  /\ INITIALIZING \in Levels
  /\ (loader \in {"start", "ctor101"} => INITIALIZING = EARLY)
  /\ \A t \in Threads : seen[t] \in Levels \cup {NoRead}

\* Reads have returned RUNTIME_SAFE and READY.
C10_Witness ==
  \E t, u \in Threads : seen[t] = RUNTIME_SAFE /\ seen[u] = READY

\* The stores the two constructors make in a process's lifetime, in order.
HookStores == <<RUNTIME_SAFE, READY>>

\* C11: INITIALIZING is written only by the two constructors. Every change of
\* it is a step of the loader and of no thread (no bridge, raw_syscall or errno
\* accessor step changes it), and the stores of a lifetime are a prefix of
\* EARLY -> RUNTIME_SAFE by vfs_init_constructor, then RUNTIME_SAFE -> READY by
\* vfs_late_init_constructor: each at most once, none skipped or repeated.
C11_OnlyTheTwoHooksWrite ==
  /\ [](/\ Len(stores) <= Len(HookStores)
        /\ stores = SubSeq(HookStores, 1, Len(stores))
        /\ INITIALIZING = IF stores = <<>> THEN EARLY ELSE stores[Len(stores)])
  /\ [][(INITIALIZING' # INITIALIZING \/ stores' # stores)
         => /\ stores' = Append(stores, INITIALIZING')
            /\ pc' = pc /\ errno' = errno /\ got' = got /\ traps' = traps
            /\ \/ /\ loader = "ctor101" /\ loader' = "initializers"
                  /\ INITIALIZING = EARLY /\ INITIALIZING' = RUNTIME_SAFE
               \/ /\ loader = "initializers" /\ loader' = "main"
                  /\ INITIALIZING = RUNTIME_SAFE /\ INITIALIZING' = READY]_vars

\* Both stores made, after bridges, raw_syscall and the errno accessors have
\* run on a thread.
C11_Witness ==
  /\ stores = HookStores
  /\ \E t \in Threads :
       /\ Returned(t) /\ traps[t] # <<>> /\ got[t] # NoGet
       /\ \E u \in Threads : u # t /\ wrote[u].by = "set"

\* C12: whenever a resolver entry point (velo_*_impl, creat_shim,
\* getattrlist_shim, setattrlist_shim) is executing on a thread, the process's
\* SIGPIPE disposition is already SIG_IGN.
C12_SigpipeIgnoredInResolver ==
  \A t \in Threads : pc[t] = "impl" => sigpipe = "SIG_IGN"

\* C13: given that the loader runs both constructors, INITIALIZING eventually
\* becomes READY and stays READY forever; from then on every gated bridge call
\* that starts is routed to the resolver, and a call that sampled READY makes
\* its one resolver call and no raw trap.
C13_EventuallyReadyForever ==
  /\ <>[](INITIALIZING = READY)
  /\ [][\A t \in Threads :
          (INITIALIZING = READY /\ pc[t] = "idle" /\ pc'[t] = "gate"
             /\ seen'[t] # NoRead)
          => seen'[t] = READY /\ pend'[t].kind = "impl"]_vars
  /\ [](\A t \in Threads :
          (Returned(t) /\ seen[t] = READY)
          => traps[t] = <<>> /\ Len(impls[t]) = 1)

\* READY is published, and a call that started after it has gone through the
\* resolver and returned.
C13_Witness ==
  /\ INITIALIZING = READY /\ loader = "main"
  /\ \E t \in Threads :
       /\ Returned(t) /\ call[t].fn = "stat" /\ seen[t] = READY
       /\ impls[t] # <<>> /\ traps[t] = <<>>

\* The next step of a thread that is inside a bridge.
OwnStep(t) == bridge_raw(t) \/ bridge_impl_call(t) \/ bridge_impl_return(t)

\* The steps a call still has to take before it returns.
StepsLeft(t) ==
  CASE pc[t] = "gate" /\ pend[t].kind = "impl" -> 2
    [] pc[t] = "gate" -> 1
    [] pc[t] = "impl" -> 1
    [] OTHER -> 0

\* C14: a bridge call never waits. A thread inside a bridge can always take
\* its own next step, whatever the other threads and the loader are doing;
\* every step it takes brings it one step closer to its return, which is at
\* most two steps after its entry; and a thread outside a bridge can go on,
\* so no reachable state is a deadlock.
C14_NoBlocking ==
  /\ [](\A t \in Threads :
          /\ pc[t] \in {"gate", "impl"} => ENABLED OwnStep(t)
          /\ pc[t] = "ret" => ENABLED caller_continue(t)
          /\ StepsLeft(t) <= 2)
  /\ [](ENABLED NextCalls)
  /\ [][\A t \in Threads :
          (pc[t] \in {"gate", "impl"} /\ pc'[t] # pc[t])
          => StepsLeft(t)' = StepsLeft(t) - 1]_vars

\* One thread is inside the resolver while another is about to enter it:
\* neither waits for the other.
C14_Witness ==
  \E t, u \in Threads :
    /\ t # u
    /\ pc[t] = "impl" /\ pc[u] = "gate" /\ pend[u].kind = "impl"

\* C15: while INITIALIZING is below READY no intercepted call touches
\* thread-local storage (the code has no allocation and no lock to model): the
\* raw syscall invoker performs only the trap, on success and on failure
\* alike, so a call made below READY has not written the thread's errno cell.
C15_NoThreadLocalBelowReady ==
  \A t \in Threads : INITIALIZING # READY => ~tls[t]

\* C16: fcntl with F_DUPFD_CLOEXEC (67) on an open descriptor and a minimum
\* descriptor (100) returns a non-negative descriptor, not below the minimum,
\* in every bootstrap state and leaves errno alone: fd, cmd and arg are the
\* three arguments, unchanged, of the one fcntl trap (sample below READY) or of
\* the one velo_fcntl_impl call (sample READY).
C16_DupFdCloexecSucceeds ==
  \A t \in Threads :
    (/\ Returned(t) /\ call[t].fn = "fcntl"
     /\ call[t].args[1] \in OpenFds /\ call[t].args[2] = F_DUPFD_CLOEXEC)
    => /\ ret[t] >= 0 /\ ret[t] >= call[t].args[3]
       /\ errno[t] = errno0[t]
       /\ ~(ret[t] = 0 - 1 /\ errno[t] = EINVAL)
       /\ seen[t] # READY
            => /\ impls[t] = <<>> /\ Len(traps[t]) = 1
               /\ traps[t][1].number = SYS_FCNTL
               /\ SubSeq(traps[t][1].args, 1, 3) = call[t].args
       /\ seen[t] = READY
            => /\ traps[t] = <<>>
               /\ impls[t] = <<[name |-> "velo_fcntl_impl", args |-> call[t].args]>>

\* The call of tests/poc/verify_abi_hazard.c, made before either constructor
\* has stored, has returned descriptor 100 from the raw trap.
C16_Witness ==
  \E t \in Threads :
    /\ Returned(t) /\ call[t] = [fn |-> "fcntl", args |-> <<4, F_DUPFD_CLOEXEC, 100>>,
                                 va_read |-> FALSE]
    /\ seen[t] = EARLY /\ ret[t] = 100 /\ Len(traps[t]) = 1

\* The same call made after READY has returned descriptor 100 from the
\* resolver.
C16_ReadyRouteReached ==
  \E t \in Threads :
    /\ Returned(t) /\ call[t].fn = "fcntl" /\ seen[t] = READY /\ ret[t] = 100

\* Thread t has returned from a Linux raw_syscall whose trap the kernel
\* answered with r.
LinuxReturned(t, r) ==
  Returned(t) /\ call[t].fn = "raw_syscall" /\ call[t].args[2] = r

\* C17: in both Linux variants of raw_syscall, for every kernel return value
\* r: if -4095 <= r <= -1 the function returns -1 and sets errno to -r;
\* otherwise (r >= 0, or r <= -4096) it returns r and does not write errno.
\* r = -1 and r = -4095 are failures, r = -4096 is not.
C17_LinuxErrorRange ==
  \A t \in Threads :
    (Returned(t) /\ call[t].fn = "raw_syscall")
    => LET r == call[t].args[2]
       IN  /\ (0 - 4095 <= r /\ r <= 0 - 1)
                => ret[t] = 0 - 1 /\ errno[t] = 0 - r /\ tls[t]
           /\ (r >= 0 \/ r <= 0 - 4096)
                => ret[t] = r /\ errno[t] = errno0[t] /\ ~tls[t]

\* The kernel has answered -4095 on aarch64 to a thread whose errno held 1
\* from an earlier call that the kernel answered with -1.
C17_Witness ==
  \E t \in Threads :
    /\ LinuxReturned(t, 0 - 4095) /\ call[t].args[1] = "aarch64"
    /\ errno0[t] = 1 /\ errno[t] = 4095 /\ ret[t] = 0 - 1

\* The kernel has answered -4096 to a thread whose errno held 4095: the value
\* is returned and errno is as it was.
C17_BelowRangeReached ==
  \E t \in Threads :
    /\ LinuxReturned(t, 0 - 4096) /\ call[t].args[1] = "x86_64"
    /\ errno0[t] = 4095 /\ errno[t] = 4095 /\ ret[t] = 0 - 4096

\* C18: the number a bridge passes to raw_syscall is the macOS kernel's number
\* for the operation the bridge intercepts (open with the creating flags for
\* creat): no bridge traps into another kernel operation.
C18_TrapIsTheInterceptedOperation ==
  \A t \in Threads :
    \A i \in DOMAIN traps[t] :
      XnuOp(traps[t][i].number) = DirectOp(call[t].fn)

\* C19: vfs_init_constructor sets SIGPIPE to SIG_IGN before it stores
\* RUNTIME_SAFE: in every reachable state, whatever the threads reading the
\* byte are doing, INITIALIZING different from EARLY implies that the
\* disposition is SIG_IGN, and so does every read that returned such a level.
C19_SafeImpliesSigpipeIgnored ==
  /\ INITIALIZING # EARLY => sigpipe = "SIG_IGN"
  /\ \A t \in Threads :
       (seen[t] # NoRead /\ seen[t] # EARLY) => sigpipe = "SIG_IGN"

\* The constructor has stored RUNTIME_SAFE with SIG_IGN installed, while one
\* thread holds a read of RUNTIME_SAFE and another a read of EARLY made
\* before the store.
C19_Witness ==
  /\ INITIALIZING = RUNTIME_SAFE /\ sigpipe = "SIG_IGN"
  /\ \E t, u \in Threads :
       /\ pc[t] = "gate" /\ seen[t] = RUNTIME_SAFE
       /\ pc[u] = "gate" /\ seen[u] = EARLY

\* The functions whose bridge reads INITIALIZING.
GatedFns ==
  {"open", "openat", "stat", "lstat", "access", "readlink", "fstat", "fstatat",
   "rename", "renameat", "creat", "fcntl"}

\* C20: an invocation of a gated bridge reads INITIALIZING exactly once and
\* performs exactly one downstream operation, chosen by the value read: one
\* raw trap and no resolver call if it was not READY, one resolver call and no
\* trap if it was READY, also when a constructor changes the byte between the
\* read and the operation.
C20_OneSampleOneOperation ==
  \A t \in Threads :
    call[t].fn \in GatedFns
    => /\ nreads[t] = 1 /\ seen[t] \in Levels
       /\ pend[t].kind = IF seen[t] = READY THEN "impl" ELSE "raw"
       /\ pc[t] = "gate" => traps[t] = <<>> /\ impls[t] = <<>>
       /\ pc[t] = "impl" => traps[t] = <<>> /\ Len(impls[t]) = 1
       /\ Returned(t)
            => IF seen[t] = READY
                 THEN traps[t] = <<>> /\ Len(impls[t]) = 1
                 ELSE Len(traps[t]) = 1 /\ impls[t] = <<>>

\* A bridge that read RUNTIME_SAFE has made its one trap, and no resolver
\* call, after the late constructor had stored READY.
C20_Witness ==
  \E t \in Threads :
    /\ Returned(t) /\ call[t].fn \in GatedFns /\ seen[t] = RUNTIME_SAFE
    /\ Len(traps[t]) = 1 /\ traps[t][1].late /\ impls[t] = <<>>
    /\ INITIALIZING = READY

\* Thread t issues a trap in this step, with READY already stored.
LateTrap(t) == INITIALIZING = READY /\ Len(traps'[t]) > Len(traps[t])

\* C21: a raw trap executes while INITIALIZING is READY only for a call that
\* read the byte before vfs_late_init_constructor stored READY. The calls
\* that were past their read at the store are fixed at the store (none is
\* added afterwards); each late trap is issued by one of them and uses it up,
\* so a thread issues at most one trap after the store and the late traps are
\* at most as many as those calls.
C21_LateTrapsAreInFlightCalls ==
  /\ [](/\ INITIALIZING # READY => inflight = {}
        /\ \A t \in inflight :
             pc[t] = "gate" /\ pend[t].kind = "raw" /\ seen[t] \in {EARLY, RUNTIME_SAFE}
        /\ \A t \in Threads :
             (traps[t] # <<>> /\ traps[t][1].late)
             => seen[t] \in {EARLY, RUNTIME_SAFE} /\ t \notin inflight)
  /\ [][/\ \A t \in Threads :
             LateTrap(t) => t \in inflight /\ inflight' = inflight \ {t}
        /\ INITIALIZING = READY => inflight' \subseteq inflight
        /\ \A t \in Threads :
             (INITIALIZING = READY /\ pc[t] = "idle" /\ pc'[t] = "gate")
             => pend'[t].kind # "raw"]_vars

\* Two calls were past their read when READY was stored; one has since issued
\* its trap and returned, the other has not yet trapped.
C21_Witness ==
  \E t, u \in Threads :
    /\ t # u /\ INITIALIZING = READY
    /\ Returned(t) /\ Len(traps[t]) = 1 /\ traps[t][1].late
    /\ inflight = {u} /\ pc[u] = "gate"

\* Thread t's bridge executes its raw_syscall in this step.
TrapStep(t) == Len(traps'[t]) > Len(traps[t])

\* C22: a raw_syscall that succeeds leaves the calling thread's errno exactly
\* as it was before the call, and one that fails writes the kernel's code to
\* the calling thread's errno only; in both cases every other thread's errno
\* and INITIALIZING are unchanged.
C22_RawPathErrnoFrame ==
  /\ [][\A t \in Threads :
          TrapStep(t)
          => LET p == pend[t]
                 k == KernelTrap(p.number, p.args[1], p.args[2], p.args[3],
                                 p.args[4])
             IN  /\ IF k.cf
                      THEN errno'[t] = k.x0 /\ ret'[t] = 0 - 1
                      ELSE errno'[t] = errno[t] /\ ret'[t] = k.x0
                 /\ \A u \in Threads \ {t} : errno'[u] = errno[u]
                 /\ INITIALIZING' = INITIALIZING /\ stores' = stores]_vars
  /\ [](\A t \in Threads :
          (Returned(t) /\ traps[t] # <<>> /\ ret[t] # 0 - 1)
          => errno[t] = errno0[t] /\ ~tls[t])

\* A thread whose errno held ENOENT from an earlier failed call has returned
\* from a successful raw stat with ENOENT still in errno, while another
\* thread's errno holds 0.
C22_Witness ==
  \E t, u \in Threads :
    /\ t # u
    /\ Returned(t) /\ Len(traps[t]) = 1 /\ ret[t] = 0
    /\ errno0[t] = ENOENT /\ errno[t] = ENOENT
    /\ errno[u] = 0

\* A thread has returned from a failed raw stat with ENOENT in errno, while
\* another thread's errno holds 0.
C22_FailureReached ==
  \E t, u \in Threads :
    /\ t # u
    /\ Returned(t) /\ Len(traps[t]) = 1 /\ ret[t] = 0 - 1
    /\ errno0[t] = 0 /\ errno[t] = ENOENT /\ errno[u] = 0

\* Thread t has returned from creat, thread u from open with the creating
\* flags, called with the same path and mode.
CreatAndOpen(t, u) ==
  /\ Returned(t) /\ call[t].fn = "creat"
  /\ Returned(u) /\ call[u].fn = "open"
  /\ call[u].args = <<call[t].args[1], CreatFlags, call[t].args[2]>>

\* C23: a c_creat_bridge(path, mode) that read a level below READY issues
\* exactly the trap of c_open_bridge(path, O_CREAT | O_WRONLY | O_TRUNC, mode):
\* number SYS_OPEN with that path, those flags and that mode, hence the same
\* return value and, on a failure, the same errno; one that read READY calls
\* creat_shim(path, mode) and issues no trap.
C23_CreatIsOpenWithCreatFlags ==
  /\ \A t \in Threads :
       (Returned(t) /\ call[t].fn = "creat")
       => IF seen[t] # READY
            THEN /\ impls[t] = <<>> /\ Len(traps[t]) = 1
                 /\ traps[t][1].number = SYS_OPEN
                 /\ traps[t][1].args =
                      <<call[t].args[1], CreatFlags, call[t].args[2], 0>>
            ELSE /\ traps[t] = <<>>
                 /\ impls[t] = <<[name |-> "creat_shim", args |-> call[t].args]>>
  /\ \A t, u \in Threads :
       (CreatAndOpen(t, u) /\ seen[t] # READY /\ seen[u] # READY)
       => /\ traps[t][1].number = traps[u][1].number
          /\ traps[t][1].args = traps[u][1].args
          /\ ret[t] = ret[u]
          /\ ret[t] = 0 - 1 => errno[t] = errno[u]
          /\ ret[t] # 0 - 1 => errno[t] = errno0[t] /\ errno[u] = errno0[u]

\* creat("/tmp/new", 0644) and open("/tmp/new", O_CREAT | O_WRONLY | O_TRUNC,
\* 0644), both made below READY, have returned the same descriptor from the
\* same trap.
C23_Witness ==
  \E t, u \in Threads :
    /\ CreatAndOpen(t, u) /\ seen[t] # READY /\ seen[u] # READY
    /\ call[t].args = <<Addr("/tmp/new"), 420>>
    /\ Len(traps[t]) = 1 /\ Len(traps[u]) = 1 /\ ret[t] = 5 /\ ret[u] = 5

\* Both calls with a null path have failed with EFAULT.
C23_FailureReached ==
  \E t, u \in Threads :
    /\ CreatAndOpen(t, u) /\ seen[t] # READY /\ seen[u] # READY
    /\ ret[t] = 0 - 1 /\ errno[t] = EFAULT /\ errno[u] = EFAULT

\* creat made after READY has gone to creat_shim.
C23_ReadyRouteReached ==
  \E t \in Threads :
    Returned(t) /\ call[t].fn = "creat" /\ seen[t] = READY /\ impls[t] # <<>>

====
